---- MODULE Spec2Model ----
(***************************************************************************)
(* Causal analysis of a branch/event history: vector clocks, the full      *)
(* causal edge set derived from them, and its transitive reduction.        *)
(*                                                                         *)
(* A model ("data") is a Python dict  branch -> (event -> [parents]).      *)
(* Dicts keep insertion order, and the code depends on it, so a dict is    *)
(* modelled as a sequence: data is a sequence of branches (the branch's    *)
(* name is its position, which is also its vector-clock index), a branch   *)
(* is a sequence of entries [event, parents], parents is a sequence of     *)
(* event identifiers.  Event identifiers are numbers.                      *)
(*                                                                         *)
(* Spec      runs main on every model within the bounds, with the package  *)
(*           (src/src) or with the legacy scripts (src/main.py).           *)
(* SpecEdges runs the edge builder and the reducer on freely chosen clocks.*)
(* SpecTies  runs Kahn's loop step by step with the tie-break left open.   *)
(* SpecBuilders runs the package's and the legacy edge builder and reducer *)
(*           on the same freely chosen clocks.                             *)
(* SpecReducer runs the reducer on edge maps that no clocks produced.      *)
(***************************************************************************)
EXTENDS Integers, Sequences, FiniteSets, TLC

\* Bounds of the explored inputs.
MaxEvents == 4      \* event entries in a model, and distinct identifiers
MaxBranches == 2    \* branches in a model
MaxParents == 2     \* parents listed by one event
MaxRefs == 4        \* parent references in a whole model
MaxTick == 2        \* largest component of a freely chosen vector clock
MaxLen == 2         \* largest length of a freely chosen vector clock

Ids == 1..MaxEvents

VARIABLES
    impl,            \* which program runs: "package" (src/src) or "task1" (legacy scripts)
    data,            \* the branch/event model given to compute_vector_clock
    pc,              \* position in main: "start", "clocks", "full", "reduced", "failed"
    error,           \* the exception that ended the run, "none" if there is none
    vector_clocks,   \* the clock map returned by compute_vector_clock
    event_nodes,     \* list(vector_clocks.keys())
    full_edges,      \* result of build_causal_edges (legacy: build_edges)
    reduced_edges,   \* result of reduce_transitive_edges (legacy: reduction)
    in_degree,       \* kahns_algorithm, run step by step: remaining in-degrees
    queue,           \* kahns_algorithm: events at in-degree zero, not yet ordered
    topological_order \* kahns_algorithm: the order built so far

vars == <<impl, data, pc, error, vector_clocks, event_nodes, full_edges, reduced_edges,
          in_degree, queue, topological_order>>

----------------------------------------------------------------------------
\* Generic helpers for Python values.

Ok(v) == [ok |-> TRUE, value |-> v, error |-> "none"]
Err(e) == [ok |-> FALSE, value |-> <<>>, error |-> e]

\* s[1:]
Rest(s) == SubSeq(s, 2, Len(s))

\* An insertion-ordered dict: keys in insertion order, map from key to value.
EmptyDict == [keys |-> <<>>, map |-> [k \in {} |-> <<>>]]

HasKey(d, k) == k \in DOMAIN d.map

\* d[k] = v : a new key goes last, an existing key keeps its position.
DictSet(d, k, v) ==
    IF HasKey(d, k)
    THEN [d EXCEPT !.map[k] = v]
    ELSE [keys |-> Append(d.keys, k), map |-> d.map @@ (k :> v)]

----------------------------------------------------------------------------
\* The model: iteration over branches and events.

\* "event in data[branch]"
BranchHas(branch, event) == \E i \in DOMAIN branch : branch[i].event = event

\* data[branch][event]
BranchGet(branch, event) ==
    branch[CHOOSE i \in DOMAIN branch : branch[i].event = event].parents

\* for branch in data: for event, parents in data[branch].items()
RECURSIVE Items(_, _)
Items(d, b) ==
    IF b > Len(d) THEN <<>>
    ELSE [i \in DOMAIN d[b] |->
             [event |-> d[b][i].event, parents |-> d[b][i].parents, branch |-> b]]
         \o Items(d, b + 1)

\* The two ValueErrors of the package, told apart by their messages.
NoRootError == "ValueError: No root event found in the data"
CycleError == "ValueError: Graph contains a cycle"

\* First entry without parents in branch-then-event order: (event, branch).
find_root(d) ==
    LET items == Items(d, 1)
        roots == {i \in DOMAIN items : items[i].parents = <<>>}
    IN  IF roots = {} THEN Err(NoRootError)
        ELSE LET i == CHOOSE j \in roots : \A k \in roots : j <= k
             IN  Ok([event |-> items[i].event, branch |-> items[i].branch])

\* Parents of the event in the first branch that has it, [] if none has it.
get_parents(d, event) ==
    LET bs == {b \in DOMAIN d : BranchHas(d[b], event)}
    IN  IF bs = {} THEN <<>>
        ELSE BranchGet(d[CHOOSE b \in bs : \A c \in bs : b <= c], event)

----------------------------------------------------------------------------
\* build_event_graph: adjacency lists parent -> children, keys in the order
\* in which the defaultdict first sees them.

\* graph[k] on a defaultdict(list): creates the key when absent.
Touch(g, k) == IF HasKey(g, k) THEN g ELSE DictSet(g, k, <<>>)

\* graph[parent].append(event)
AddChild(g, parent, event) ==
    LET h == Touch(g, parent)
    IN  [h EXCEPT !.map[parent] = Append(@, event)]

RECURSIVE AddParents(_, _, _)
AddParents(g, parents, event) ==
    IF parents = <<>> THEN g
    ELSE AddParents(AddChild(g, Head(parents), event), Tail(parents), event)

RECURSIVE AddItems(_, _)
AddItems(g, items) ==
    IF items = <<>> THEN g
    ELSE AddItems(AddParents(Touch(g, Head(items).event),
                             Head(items).parents, Head(items).event),
                  Tail(items))

build_event_graph(d) == AddItems(EmptyDict, Items(d, 1))

----------------------------------------------------------------------------
\* kahns_algorithm

\* Number of times v occurs in the list s.
Count(s, v) == Cardinality({i \in DOMAIN s : s[i] = v})

\* for u in graph: for v in graph[u]: in_degree[v] += 1
RECURSIVE Occurrences(_, _, _)
Occurrences(g, keys, v) ==
    IF keys = <<>> THEN 0
    ELSE Count(g.map[Head(keys)], v) + Occurrences(g, Tail(keys), v)

InDegree(g) == [v \in DOMAIN g.map |-> Occurrences(g, g.keys, v)]

\* Variant: every event is queued at the start, whatever its in-degree.
InitialQueue_all(g, deg) == g.keys

\* deque([u for u in graph if in_degree[u] == 0])
InitialQueue(g, deg) == SelectSeq(g.keys, LAMBDA u : deg[u] = 0)

\* for v in graph[u]: in_degree[v] -= 1; if in_degree[v] == 0: queue.append(v)
RECURSIVE Relax(_, _, _)
Relax(children, deg, q) ==
    IF children = <<>> THEN [deg |-> deg, queue |-> q]
    ELSE LET v == Head(children)
             d == [deg EXCEPT ![v] = @ - 1]
         IN  Relax(Tail(children), d, IF d[v] = 0 THEN Append(q, v) ELSE q)

\* while queue: u = queue.popleft(); topological_order.append(u); ...
RECURSIVE KahnLoop(_, _, _, _)
KahnLoop(g, deg, q, order) ==
    IF q = <<>> THEN order
    ELSE LET u == Head(q)
             r == Relax(g.map[u], deg, Tail(q))
         IN  KahnLoop(g, r.deg, r.queue, Append(order, u))

\* Variant: the length check left out, whatever was ordered is returned.
kahns_algorithm_unchecked(g) ==
    LET deg == InDegree(g)
    IN  Ok(KahnLoop(g, deg, InitialQueue(g, deg), <<>>))

kahns_algorithm(g) ==
    LET deg == InDegree(g)
        order == KahnLoop(g, deg, InitialQueue(g, deg), <<>>)
    IN  IF Len(order) # Len(g.keys) THEN Err(CycleError) ELSE Ok(order)

\* The legacy script returns whatever was ordered, without the cycle check.
task1_kahns_algorithm(g) ==
    LET deg == InDegree(g)
    IN  KahnLoop(g, deg, InitialQueue(g, deg), <<>>)

----------------------------------------------------------------------------
\* compute_vector_clock

Zeros(n) == [i \in 1..n |-> 0]

\* Variant: the parent's clock replaces the running maximum.
MaxClock_last(clock, parent_clock) == parent_clock

\* [max(c, pc) for c, pc in zip(clock, parent_clock)]
MaxClock(clock, parent_clock) ==
    [i \in 1..(IF Len(clock) <= Len(parent_clock) THEN Len(clock) ELSE Len(parent_clock)) |->
        IF clock[i] >= parent_clock[i] THEN clock[i] ELSE parent_clock[i]]

\* for parent in parents: clock = max(clock, vector_clocks[parent])
RECURSIVE MergeParents(_, _, _)
MergeParents(vc, parents, clock) ==
    IF parents = <<>> THEN Ok(clock)
    ELSE IF ~HasKey(vc, Head(parents)) THEN Err("KeyError")
    ELSE MergeParents(vc, Tail(parents), MaxClock(clock, vc.map[Head(parents)]))

\* First branch that has the event; `missing` is the exception when none has.
EventBranch(d, event, missing) ==
    LET bs == {b \in DOMAIN d : BranchHas(d[b], event)}
    IN  IF bs = {} THEN Err(missing)
        ELSE Ok(CHOOSE b \in bs : \A c \in bs : b <= c)

\* Variant: the own component is not incremented.
Tick_skipped(clock, b) == clock

\* clock[branch_indices[event_branch]] += 1
Tick(clock, b) == [i \in DOMAIN clock |-> IF i = b THEN clock[i] + 1 ELSE clock[i]]

\* Variant: the clock is not reset to zeros for each event, it starts from
\* the clock assigned last.
ClockOf_stale(d, vc, event, missing) ==
    LET merged == MergeParents(vc, get_parents(d, event), vc.map[vc.keys[Len(vc.keys)]])
        branch == EventBranch(d, event, missing)
    IN  IF ~merged.ok THEN merged
        ELSE IF ~branch.ok THEN branch
        ELSE Ok(Tick(merged.value, branch.value))

\* Body of the loop over the topological order: the clock of one event.
ClockOf(d, vc, event, missing) ==
    LET merged == MergeParents(vc, get_parents(d, event), Zeros(Len(d)))
        branch == EventBranch(d, event, missing)
    IN  IF ~merged.ok THEN merged
        ELSE IF ~branch.ok THEN branch
        ELSE Ok(Tick(merged.value, branch.value))

RECURSIVE ClockLoop(_, _, _, _)
ClockLoop(d, order, vc, missing) ==
    IF order = <<>> THEN Ok(vc)
    ELSE LET c == ClockOf(d, vc, Head(order), missing)
         IN  IF ~c.ok THEN c
             ELSE ClockLoop(d, Rest(order), DictSet(vc, Head(order), c.value), missing)

\* The root's clock: zeros with a 1 at the root's branch.
RootClock(d, branch) == [i \in 1..Len(d) |-> IF i = branch THEN 1 ELSE 0]

\* compute_vector_clock after the topological sort: the root found by
\* find_root gets its clock, then every event of topo_order[1:] in turn.
assign_clocks(d, topo_order) ==
    LET root == find_root(d)
    IN  IF ~root.ok THEN root
        ELSE ClockLoop(d, Rest(topo_order),
                       DictSet(EmptyDict, root.value.event, RootClock(d, root.value.branch)),
                       "StopIteration")

compute_vector_clock(d) ==
    LET topo_order == kahns_algorithm(build_event_graph(d))
    IN  IF ~topo_order.ok THEN topo_order
        ELSE assign_clocks(d, topo_order.value)

\* The legacy script: the root clock goes to topo_order[0], whatever
\* find_root returned as the event; find_root returning None is a TypeError.
task1_compute_vector_clock(d) ==
    LET topo_order == task1_kahns_algorithm(build_event_graph(d))
        root == find_root(d)
    IN  IF topo_order = <<>> THEN Err("IndexError")
        ELSE IF ~root.ok THEN Err("TypeError")
        ELSE ClockLoop(d, Rest(topo_order),
                       DictSet(EmptyDict, topo_order[1], RootClock(d, root.value.branch)),
                       "IndexError")

----------------------------------------------------------------------------
\* build_causal_edges

\* zip(pre_clock, post_clock) stops at the shorter of the two.
ZipLen(a, b) == IF Len(a) <= Len(b) THEN Len(a) ELSE Len(b)

\* Variant: one strictly smaller component is enough.
is_causally_before_any(pre_clock, post_clock) ==
    \E i \in 1..ZipLen(pre_clock, post_clock) : pre_clock[i] < post_clock[i]

is_causally_before(pre_clock, post_clock) ==
    LET n == ZipLen(pre_clock, post_clock)
        all_less_or_equal == \A i \in 1..n : pre_clock[i] <= post_clock[i]
        at_least_one_strictly_less == \E i \in 1..n : pre_clock[i] < post_clock[i]
    IN  all_less_or_equal /\ at_least_one_strictly_less

\* An edge map is a function from the listed nodes to sets of nodes.
build_causal_edges(nodes, clocks) ==
    [pre_node \in {nodes[i] : i \in DOMAIN nodes} |->
        {post_node \in {nodes[i] : i \in DOMAIN nodes} :
            \E pre_index, post_index \in DOMAIN nodes :
                /\ nodes[pre_index] = pre_node
                /\ nodes[post_index] = post_node
                /\ pre_index # post_index
                /\ is_causally_before(clocks[pre_node], clocks[post_node])}]

\* The legacy builder (task1_23/Build_G.py).  The loop of causally_precedes
\* from position i on: `less` is still True, it turns False and the loop
\* breaks at the first component where pre < post; strickly_less turns True
\* at a component where pre > post.  The result is less and strickly_less.
RECURSIVE causally_precedes_loop(_, _, _, _)
causally_precedes_loop(pre_node_vector, post_node_vector, i, strickly_less) ==
    IF i > ZipLen(pre_node_vector, post_node_vector) THEN strickly_less
    ELSE IF pre_node_vector[i] < post_node_vector[i] THEN FALSE
    ELSE causally_precedes_loop(pre_node_vector, post_node_vector, i + 1,
                                strickly_less \/ pre_node_vector[i] > post_node_vector[i])

causally_precedes(pre_node_vector, post_node_vector) ==
    causally_precedes_loop(pre_node_vector, post_node_vector, 1, FALSE)

build_edges(nodes, clocks) ==
    [pre_node \in {nodes[i] : i \in DOMAIN nodes} |->
        {post_node \in {nodes[i] : i \in DOMAIN nodes} :
            \E pre_index, post_index \in DOMAIN nodes :
                /\ nodes[pre_index] = pre_node
                /\ nodes[post_index] = post_node
                /\ pre_index # post_index
                /\ causally_precedes(clocks[pre_node], clocks[post_node])}]

----------------------------------------------------------------------------
\* reduce_transitive_edges

\* dfs(start, current, visited): returns visited after the call; every node
\* added to visited is added to reachability[start] as well.
RECURSIVE dfs(_, _, _)
RECURSIVE dfs_neighbors(_, _, _)
dfs_neighbors(edges, todo, visited) ==
    IF todo = {} THEN visited
    ELSE LET neighbor == CHOOSE x \in todo : TRUE
         IN  dfs_neighbors(edges, todo \ {neighbor},
                 IF neighbor \in visited THEN visited
                 ELSE dfs(edges, neighbor, visited \cup {neighbor}))
dfs(edges, current, visited) == dfs_neighbors(edges, edges[current], visited)

compute_reachability(edges) ==
    [node \in DOMAIN edges |-> dfs(edges, node, {})]

\* Variant: any other direct successor makes the edge redundant.
is_redundant_sibling(edges, reachability, source_node, target_node) ==
    \E intermediate_node \in edges[source_node] : intermediate_node # target_node

\* Variant: the intermediate node is compared the wrong way round.
is_redundant_never(edges, reachability, source_node, target_node) ==
    \E intermediate_node \in edges[source_node] :
        intermediate_node = target_node /\ target_node \in reachability[intermediate_node]

\* Variant: the target is looked up among the direct successors of the
\* intermediate node, not among all the nodes it reaches.
is_redundant_direct(edges, reachability, source_node, target_node) ==
    \E intermediate_node \in edges[source_node] :
        intermediate_node # target_node /\ target_node \in edges[intermediate_node]

\* The edge source -> target is redundant when another direct successor of
\* source reaches target.
is_redundant(edges, reachability, source_node, target_node) ==
    \E intermediate_node \in edges[source_node] :
        intermediate_node # target_node /\ target_node \in reachability[intermediate_node]

reduce_transitive_edges(edges) ==
    LET reachability == compute_reachability(edges)
    IN  [source_node \in DOMAIN edges |->
            {target_node \in edges[source_node] :
                ~is_redundant(edges, reachability, source_node, target_node)}]

\* The legacy reducer (task1_3/reduction_redundant_edges.py): the same
\* steps, written in one function.  dfs(start, current, visited) adds every
\* node it visits to reach[start].
RECURSIVE reduction_dfs(_, _, _)
RECURSIVE reduction_dfs_next(_, _, _)
reduction_dfs_next(edges, todo, visited) ==
    IF todo = {} THEN visited
    ELSE LET next == CHOOSE x \in todo : TRUE
         IN  reduction_dfs_next(edges, todo \ {next},
                 IF next \in visited THEN visited
                 ELSE reduction_dfs(edges, next, visited \cup {next}))
reduction_dfs(edges, current, visited) == reduction_dfs_next(edges, edges[current], visited)

reduction(edges) ==
    LET reach == [node \in DOMAIN edges |-> reduction_dfs(edges, node, {})]
    IN  [pivot_node \in DOMAIN edges |->
            {node_neighbor \in edges[pivot_node] :
                LET redundant == \E neighbor \in edges[pivot_node] :
                                     neighbor # node_neighbor /\ node_neighbor \in reach[neighbor]
                IN  ~redundant}]

----------------------------------------------------------------------------
\* Inputs: every model of at most MaxEvents entries in at most MaxBranches
\* branches, with at most MaxParents parents per entry and MaxRefs parent
\* references in all.  Identifiers are opaque to the code, so the entries
\* are named in order of first appearance: the k-th new identifier is k.
\* An identifier that no entry carries is a missing parent when referenced.
\* The keys of a dict are distinct: no identifier comes twice in one branch.

RECURSIVE SumTo(_, _)
SumTo(f, n) == IF n = 0 THEN 0 ELSE f[n] + SumTo(f, n - 1)

FirstAppearance(ids) ==
    \A i \in DOMAIN ids : \A v \in 1..(ids[i] - 1) : \E j \in 1..(i - 1) : ids[j] = v

NonDecreasing(f) == \A i, j \in DOMAIN f : i <= j => f[i] <= f[j]

\* The model with entry i = (ids[i], refs sliced by lens) placed in branch split[i].
ModelOf(nb, ids, lens, refs, split) ==
    LET n == Len(ids)
        entry(i) == [event |-> ids[i],
                     parents |-> SubSeq(refs, SumTo(lens, i - 1) + 1, SumTo(lens, i))]
        index == [i \in 1..n |-> i]
    IN  [b \in 1..nb |->
            LET mine == SelectSeq(index, LAMBDA i : split[i] = b)
            IN  [k \in DOMAIN mine |-> entry(mine[k])]]

NoDict == [k \in {} |-> {}]

InitRest ==
    /\ error = "none"
    /\ full_edges = NoDict
    /\ reduced_edges = NoDict
    /\ in_degree = NoDict
    /\ queue = <<>>
    /\ topological_order = <<>>

\* With closed = TRUE only the models in which every parent is an event and
\* no event is in two branches: entry i carries identifier i, parents are
\* taken among the identifiers carried.
InitModelOf(closed) ==
    \E n \in 0..MaxEvents, nb \in 0..MaxBranches :
        \E ids \in (IF closed THEN {[i \in 1..n |-> i]} ELSE [1..n -> Ids]) :
            /\ FirstAppearance(ids)
            /\ \E split \in [1..n -> 1..nb] :
                   /\ NonDecreasing(split)
                   /\ \A i, j \in 1..n : (i # j /\ ids[i] = ids[j]) => split[i] # split[j]
                   /\ \E lens \in [1..n -> 0..MaxParents] :
                          /\ SumTo(lens, n) <= MaxRefs
                          /\ \E refs \in [1..SumTo(lens, n) -> (IF closed THEN 1..n ELSE Ids)] :
                                 data = ModelOf(nb, ids, lens, refs, split)

InitModel == InitModelOf(FALSE)

Init ==
    /\ impl \in {"package", "task1"}
    /\ InitModel
    /\ pc = "start"
    /\ vector_clocks = EmptyDict
    /\ event_nodes = <<>>
    /\ InitRest

----------------------------------------------------------------------------
\* main: the three steps of the analysis, in the package (src/src/main.py)
\* and in the legacy main (src/main.py).

\* vector_clocks = compute_vector_clock(data); an exception ends the run.
\* event_nodes = list(vector_clocks.keys())
Returned(r) ==
    /\ pc' = IF r.ok THEN "clocks" ELSE "failed"
    /\ error' = r.error
    /\ vector_clocks' = IF r.ok THEN r.value ELSE vector_clocks
    /\ event_nodes' = IF r.ok THEN r.value.keys ELSE event_nodes
    /\ UNCHANGED <<impl, data, full_edges, reduced_edges, in_degree, queue>>

\* topological_order keeps what kahns_algorithm returned to
\* compute_vector_clock (nothing when it raised).
ComputeVectorClock ==
    /\ pc = "start"
    /\ impl = "package"
    /\ LET topo_order == kahns_algorithm(build_event_graph(data))
       IN  topological_order' = IF topo_order.ok THEN topo_order.value ELSE <<>>
    /\ Returned(compute_vector_clock(data))

Task1ComputeVectorClock ==
    /\ pc = "start"
    /\ impl = "task1"
    /\ topological_order' = task1_kahns_algorithm(build_event_graph(data))
    /\ Returned(task1_compute_vector_clock(data))

\* full_edges = build_causal_edges(event_nodes, vector_clocks)
BuildCausalEdges ==
    /\ pc = "clocks"
    /\ impl = "package"
    /\ full_edges' = build_causal_edges(event_nodes, vector_clocks.map)
    /\ pc' = "full"
    /\ UNCHANGED <<impl, data, error, vector_clocks, event_nodes, reduced_edges,
                   in_degree, queue, topological_order>>

\* full_edges = build_edges(event_nodes, vector_clocks)
Task1BuildEdges ==
    /\ pc = "clocks"
    /\ impl = "task1"
    /\ full_edges' = build_edges(event_nodes, vector_clocks.map)
    /\ pc' = "full"
    /\ UNCHANGED <<impl, data, error, vector_clocks, event_nodes, reduced_edges,
                   in_degree, queue, topological_order>>

\* reduced_edges = reduce_transitive_edges(full_edges)
ReduceTransitiveEdges ==
    /\ pc = "full"
    /\ impl = "package"
    /\ reduced_edges' = reduce_transitive_edges(full_edges)
    /\ pc' = "reduced"
    /\ UNCHANGED <<impl, data, error, vector_clocks, event_nodes, full_edges,
                   in_degree, queue, topological_order>>

\* reduction_edges = reduction(full_edges)
Task1Reduction ==
    /\ pc = "full"
    /\ impl = "task1"
    /\ reduced_edges' = reduction(full_edges)
    /\ pc' = "reduced"
    /\ UNCHANGED <<impl, data, error, vector_clocks, event_nodes, full_edges,
                   in_degree, queue, topological_order>>

Next ==
    \/ ComputeVectorClock
    \/ Task1ComputeVectorClock
    \/ BuildCausalEdges
    \/ Task1BuildEdges
    \/ ReduceTransitiveEdges
    \/ Task1Reduction

Spec == Init /\ [][Next]_vars

----------------------------------------------------------------------------
\* The edge builder and the reducer on freely chosen clocks: any list of at
\* most MaxEvents nodes (repetitions allowed, named in order of first
\* appearance) and any clock of length at most MaxLen for each of them.

Vectors == UNION {[1..l -> 0..MaxTick] : l \in 0..MaxLen}

SeqRange(s) == {s[i] : i \in DOMAIN s}

\* main has a list of nodes and a clock for each of them.
InitClocks ==
    /\ data = <<>>
    /\ pc = "clocks"
    /\ \E n \in 0..MaxEvents :
           \E nodes \in [1..n -> Ids] :
               /\ FirstAppearance(nodes)
               /\ event_nodes = nodes
               /\ \E clocks \in [SeqRange(nodes) -> Vectors] :
                      vector_clocks = [keys |-> [i \in 1..Cardinality(SeqRange(nodes)) |-> i],
                                       map |-> clocks]
    /\ InitRest

InitEdges ==
    /\ impl = "package"
    /\ InitClocks

NextEdges == BuildCausalEdges \/ ReduceTransitiveEdges

SpecEdges == InitEdges /\ [][NextEdges]_vars

----------------------------------------------------------------------------
\* The two programs side by side from the same freely chosen nodes and
\* clocks on: build_causal_edges and reduce_transitive_edges of the package,
\* build_edges and reduction of the legacy main.

InitBuilders ==
    /\ impl \in {"package", "task1"}
    /\ InitClocks

NextBuilders ==
    \/ BuildCausalEdges
    \/ Task1BuildEdges
    \/ ReduceTransitiveEdges
    \/ Task1Reduction

SpecBuilders == InitBuilders /\ [][NextBuilders]_vars

----------------------------------------------------------------------------
\* The reducer on edge maps that no clocks produced: every edge map (every
\* target also a key, cycles and self-loops included) on fewer than
\* MaxEvents nodes, and every acyclic edge map on MaxEvents nodes.  Node
\* names are opaque to the reducer, so the nodes of the latter are named
\* along a topological order: every edge goes from a smaller to a larger
\* name.

AllMaps(n) == [1..n -> SUBSET (1..n)]

UpwardMaps(n) ==
    {[u \in 1..n |-> {v \in 1..n : <<u, v>> \in P}] :
        P \in SUBSET {p \in (1..n) \X (1..n) : p[1] < p[2]}}

EdgeMaps == UNION {AllMaps(n) : n \in 0..(MaxEvents - 1)} \cup UpwardMaps(MaxEvents)

InitReducer ==
    /\ impl = "package"
    /\ data = <<>>
    /\ pc = "full"
    /\ vector_clocks = EmptyDict
    /\ full_edges \in EdgeMaps
    /\ event_nodes = [i \in 1..Cardinality(DOMAIN full_edges) |-> i]
    /\ error = "none"
    /\ reduced_edges = NoDict
    /\ in_degree = NoDict
    /\ queue = <<>>
    /\ topological_order = <<>>

NextReducer == ReduceTransitiveEdges

SpecReducer == InitReducer /\ [][NextReducer]_vars

----------------------------------------------------------------------------
\* kahns_algorithm step by step, with the tie-break left open: any event of
\* the queue may be taken next, not only the oldest.  The clocks are then
\* assigned along the order obtained.  The inputs are the models in which
\* every parent is an event and no event is in two branches (cycles and
\* several roots included).

InitTies ==
    /\ impl = "package"
    /\ InitModelOf(TRUE)
    /\ pc = "sorting"
    /\ error = "none"
    /\ vector_clocks = EmptyDict
    /\ event_nodes = <<>>
    /\ full_edges = NoDict
    /\ reduced_edges = NoDict
    /\ in_degree = InDegree(build_event_graph(data))
    /\ queue = InitialQueue(build_event_graph(data), in_degree)
    /\ topological_order = <<>>

\* s without its i-th element
RemoveAt(s, i) == SubSeq(s, 1, i - 1) \o SubSeq(s, i + 1, Len(s))

\* One turn of the while loop, taking the i-th event of the queue.
DequeueAny ==
    /\ pc = "sorting"
    /\ \E i \in DOMAIN queue :
           LET u == queue[i]
               r == Relax(build_event_graph(data).map[u], in_degree, RemoveAt(queue, i))
           IN  /\ topological_order' = Append(topological_order, u)
               /\ in_degree' = r.deg
               /\ queue' = r.queue
    /\ UNCHANGED <<impl, data, pc, error, vector_clocks, event_nodes, full_edges, reduced_edges>>

\* The queue is empty: the length check of kahns_algorithm, then the rest of
\* compute_vector_clock on the order obtained.
AssignClocks ==
    /\ pc = "sorting"
    /\ queue = <<>>
    /\ LET r == IF Len(topological_order) # Len(build_event_graph(data).keys)
                THEN Err(CycleError)
                ELSE assign_clocks(data, topological_order)
       IN  /\ pc' = IF r.ok THEN "clocks" ELSE "failed"
           /\ error' = r.error
           /\ vector_clocks' = IF r.ok THEN r.value ELSE vector_clocks
           /\ event_nodes' = IF r.ok THEN r.value.keys ELSE event_nodes
    /\ UNCHANGED <<impl, data, full_edges, reduced_edges, in_degree, queue, topological_order>>

NextTies == DequeueAny \/ AssignClocks

SpecTies == InitTies /\ [][NextTies]_vars

----------------------------------------------------------------------------
\* Vocabulary of the properties: the parent relation of a model and the
\* reachability of an edge map, both computed as relations, independently of
\* the algorithms above.

\* The events of a model.
Events(d) == {Items(d, 1)[i].event : i \in DOMAIN Items(d, 1)}

\* The parent links of a model, as pairs <<parent, child>>.
ParentLinks(d) ==
    LET items == Items(d, 1)
    IN  UNION {{<<items[i].parents[k], items[i].event>> : k \in DOMAIN items[i].parents} :
                  i \in DOMAIN items}

\* The edges of an edge map, as pairs <<source, target>>.
EdgePairs(edges) == UNION {{<<u, v>> : v \in edges[u]} : u \in DOMAIN edges}

RECURSIVE TransitiveClosure(_)
TransitiveClosure(R) ==
    LET S == R \cup {<<x[1][1], x[2][2]>> : x \in {y \in R \X R : y[1][2] = y[2][1]}}
    IN  IF S = R THEN R ELSE TransitiveClosure(S)

\* v is reachable from u by one or more parent-to-child links.
HappenedBefore(d) == TransitiveClosure(ParentLinks(d))

Acyclic(d) == \A l \in HappenedBefore(d) : l[1] # l[2]

\* Exactly one entry has no parents.
SingleRoot(d) ==
    Cardinality({i \in DOMAIN Items(d, 1) : Items(d, 1)[i].parents = <<>>}) = 1

\* Some event is an event of more than one branch.
HasSharedEvent(d) ==
    \E i, j \in DOMAIN Items(d, 1) : i # j /\ Items(d, 1)[i].event = Items(d, 1)[j].event

\* Some event lists a parent that is an event of no branch.
HasMissingParent(d) == \E l \in ParentLinks(d) : l[1] \notin Events(d)

\* Every event belongs to exactly one branch and every parent is an event.
WellFormed(d) == ~HasSharedEvent(d) /\ ~HasMissingParent(d)

\* The branch of an event of a well-formed model.
BranchOf(d, e) == CHOOSE b \in DOMAIN d : BranchHas(d[b], e)

\* compute_vector_clock returned (or raised): the run is past its first step.
Computed == pc \in {"clocks", "full", "reduced", "failed"}

----------------------------------------------------------------------------
\* Properties.

\* Acyclic, exactly one zero-parent event, every event in exactly one branch
\* and every parent an event.
SingleRootDag(d) == WellFormed(d) /\ SingleRoot(d) /\ Acyclic(d)

\* C1. Monotonicity: on an acyclic, single-root, well-formed model
\* compute_vector_clock (package and legacy script) returns a clock map in
\* which, for every event c and every parent p listed for c, clock[c] >=
\* clock[p] in every component and clock[c] > clock[p] in the component of
\* c's own branch.
C1_Monotonicity ==
    (Computed /\ SingleRootDag(data)) =>
        /\ pc # "failed"
        /\ \A l \in ParentLinks(data) :
               LET p == vector_clocks.map[l[1]]
                   c == vector_clocks.map[l[2]]
               IN  /\ \A i \in 1..Len(data) : c[i] >= p[i]
                   /\ c[BranchOf(data, l[2])] > p[BranchOf(data, l[2])]

\* A two-branch model was clocked in which an event has two different
\* parents and a link crosses from one branch to the other.
C1_Witness ==
    /\ pc = "clocks"
    /\ SingleRootDag(data)
    /\ Len(data) = 2
    /\ \E l, m \in ParentLinks(data) : l[2] = m[2] /\ l[1] # m[1]
    /\ \E l \in ParentLinks(data) : BranchOf(data, l[1]) # BranchOf(data, l[2])

\* Any two events of the same branch are ordered by the parent links.
BranchesAreChains(d) ==
    \A e, f \in Events(d) :
        (e # f /\ BranchOf(d, e) = BranchOf(d, f)) =>
            (<<e, f>> \in HappenedBefore(d) \/ <<f, e>> \in HappenedBefore(d))

\* C2 as stated: on an acyclic, single-root, well-formed model the full edge
\* set that build_causal_edges (the package's builder) builds from the
\* computed clocks has the edge u -> v if and only if v is reachable from u
\* by parent-to-child links.
C2_ExactlyHappenedBefore ==
    (pc = "full" /\ impl = "package" /\ SingleRootDag(data)) =>
        \A u, v \in Events(data) :
            v \in full_edges[u] <=> <<u, v>> \in HappenedBefore(data)

\* C2, amended: on such a model the full edge set has the edge u -> v
\* whenever v is reachable from u (no edge is missing), and it has no other
\* edge when any two events of the same branch are ordered by the parent
\* links.
C2_NoMissingEdge_ExactOnChains ==
    (pc = "full" /\ impl = "package" /\ SingleRootDag(data)) =>
        /\ \A l \in HappenedBefore(data) : l[2] \in full_edges[l[1]]
        /\ BranchesAreChains(data) =>
               \A u, v \in Events(data) :
                   v \in full_edges[u] => <<u, v>> \in HappenedBefore(data)

\* The full edges of a two-branch model whose branches are chains were built:
\* there is an edge that is no direct link, and two events without an edge
\* either way.
C2_Witness ==
    /\ pc = "full"
    /\ impl = "package"
    /\ SingleRootDag(data)
    /\ BranchesAreChains(data)
    /\ Len(data) = 2
    /\ \E l \in HappenedBefore(data) \ ParentLinks(data) : l[2] \in full_edges[l[1]]
    /\ \E u, v \in Events(data) :
           u # v /\ v \notin full_edges[u] /\ u \notin full_edges[v]

\* The clocks of all listed nodes have the same length.
EqualLength ==
    \A u, v \in SeqRange(event_nodes) :
        Len(vector_clocks.map[u]) = Len(vector_clocks.map[v])

\* C3. Reachability preservation: for a full edge map built from
\* equal-length clocks, v is reachable from u by one or more reduced edges
\* if and only if u -> v is an edge of the full map.
C3_ReachabilityPreserved ==
    (pc = "reduced" /\ EqualLength) =>
        \A u, v \in DOMAIN full_edges :
            <<u, v>> \in TransitiveClosure(EdgePairs(reduced_edges)) <=> v \in full_edges[u]

\* A reduction that removed an edge and kept a path of two edges.
C3_Witness ==
    /\ pc = "reduced"
    /\ EqualLength
    /\ \E u \in DOMAIN full_edges : reduced_edges[u] # full_edges[u]
    /\ \E u \in DOMAIN reduced_edges : \E v \in reduced_edges[u] : reduced_edges[v] # {}

\* C4. Minimality: for a full edge map built from equal-length clocks,
\* removing any single edge u -> v from the reduced map makes v unreachable
\* from u in what remains.
C4_Minimality ==
    (pc = "reduced" /\ EqualLength) =>
        \A e \in EdgePairs(reduced_edges) :
            e \notin TransitiveClosure(EdgePairs(reduced_edges) \ {e})

\* A reduction that removed an edge and left a node with two successors.
C4_Witness ==
    /\ pc = "reduced"
    /\ EqualLength
    /\ \E u \in DOMAIN full_edges : reduced_edges[u] # full_edges[u]
    /\ \E u \in DOMAIN reduced_edges : Cardinality(reduced_edges[u]) = 2

\* C5. Cycle detection: when the parent links of the model contain a cycle,
\* compute_vector_clock of the package fails with the cycle error of
\* kahns_algorithm and returns no clock map, not even a partial one.
C5_CycleDetection ==
    (Computed /\ impl = "package" /\ ~Acyclic(data)) =>
        /\ pc = "failed"
        /\ error = CycleError
        /\ vector_clocks = EmptyDict

\* The package refused a model that has a cycle next to a zero-parent event
\* which is not on any cycle.
C5_Witness ==
    /\ pc = "failed"
    /\ impl = "package"
    /\ ~Acyclic(data)
    /\ find_root(data).ok
    /\ <<find_root(data).value.event, find_root(data).value.event>> \notin HappenedBefore(data)

\* C6 as stated: when some event lists a parent that is an event of no
\* branch, compute_vector_clock (package and legacy script) ends in an error
\* and returns no clock map.
C6_MissingParentFatal ==
    (Computed /\ HasMissingParent(data)) => pc = "failed"

\* C7 as stated: when the same event identifier is an event of more than one
\* branch, compute_vector_clock ends in an error and returns no clock map.
C7_SharedEventFatal ==
    (Computed /\ impl = "package" /\ HasSharedEvent(data)) => pc = "failed"

\* Position of an event in an order that holds it once.
IndexOf(order, e) == CHOOSE i \in DOMAIN order : order[i] = e

\* C8. Topological order: for the event graph of an acyclic well-formed
\* model, kahns_algorithm returns a sequence that contains every event
\* exactly once and in which every event comes after all of its parents.
C8_TopologicalOrder ==
    (Computed /\ WellFormed(data) /\ Acyclic(data)) =>
        /\ SeqRange(topological_order) = Events(data)
        /\ \A e \in Events(data) : Count(topological_order, e) = 1
        /\ \A l \in ParentLinks(data) :
               IndexOf(topological_order, l[1]) < IndexOf(topological_order, l[2])

\* An order was returned that differs from the order of the graph's keys,
\* for a model in which an event has two different parents.
C8_Witness ==
    /\ Computed
    /\ WellFormed(data)
    /\ Acyclic(data)
    /\ topological_order # build_event_graph(data).keys
    /\ \E l, m \in ParentLinks(data) : l[2] = m[2] /\ l[1] # m[1]

\* C9. Closure: for every list of events and every map of equal-length
\* clocks, the edge map of build_causal_edges is transitively closed:
\* whenever u -> v and v -> w are edges, u -> w is an edge.
C9_Closure ==
    (pc \in {"full", "reduced"} /\ EqualLength) =>
        \A u \in DOMAIN full_edges : \A v \in full_edges[u] : \A w \in full_edges[v] :
            w \in full_edges[u]

\* An edge map was built that has a path of two edges, from a list that
\* names a node twice.
C9_Witness ==
    /\ pc = "full"
    /\ EqualLength
    /\ \E u \in DOMAIN full_edges : \E v \in full_edges[u] : full_edges[v] # {}
    /\ Len(event_nodes) > Cardinality(SeqRange(event_nodes))

\* C10. Linearization independence: on an acyclic, single-root, well-formed
\* model the clock map assigned along any order in which Kahn's algorithm
\* may take the events at in-degree zero is the map compute_vector_clock
\* returns with its own first-in-first-out order.
C10_LinearizationIndependence ==
    (pc \in {"clocks", "failed"} /\ SingleRootDag(data)) =>
        LET returned == compute_vector_clock(data)
        IN  /\ pc = "clocks"
            /\ returned.ok
            /\ vector_clocks.map = returned.value.map

\* Clocks were assigned along an order that is not the one kahns_algorithm
\* returns.
C10_Witness ==
    /\ pc = "clocks"
    /\ SingleRootDag(data)
    /\ topological_order # kahns_algorithm(build_event_graph(data)).value

\* More than one event has an entry without parents.
MultipleRoots(d) ==
    Cardinality({Items(d, 1)[i].event :
                    i \in {j \in DOMAIN Items(d, 1) : Items(d, 1)[j].parents = <<>>}}) > 1

\* C11 as stated: on an acyclic model in which every parent is an event (and
\* no event is in two branches) and more than one event has zero parents,
\* compute_vector_clock of the package raises no error, gives the root's
\* clock to the first zero-parent event in branch-then-event order, and
\* returns a clock map with an entry for every event of the model.
C11_MultipleRootsAccepted ==
    (Computed /\ impl = "package" /\ WellFormed(data) /\ Acyclic(data) /\ MultipleRoots(data)) =>
        /\ pc # "failed"
        /\ SeqRange(vector_clocks.keys) = Events(data)
        /\ vector_clocks.map[find_root(data).value.event]
               = RootClock(data, find_root(data).value.branch)

\* C12 as stated: for every list of events and every map of equal-length
\* clocks, build_edges of the legacy script returns the edge map that
\* build_causal_edges returns, that is, u -> v exactly when clock[u] <=
\* clock[v] in every component and clock[u] < clock[v] in at least one.
C12_BuildersAgree ==
    (pc = "full" /\ impl = "task1" /\ EqualLength) =>
        /\ full_edges = build_causal_edges(event_nodes, vector_clocks.map)
        /\ \A u, v \in SeqRange(event_nodes) :
               v \in full_edges[u] <=>
                   /\ \A i \in DOMAIN vector_clocks.map[u] :
                          vector_clocks.map[u][i] <= vector_clocks.map[v][i]
                   /\ \E i \in DOMAIN vector_clocks.map[u] :
                          vector_clocks.map[u][i] < vector_clocks.map[v][i]

\* No node of the edge map reaches itself.
AcyclicEdges(edges) == \A l \in TransitiveClosure(EdgePairs(edges)) : l[1] # l[2]

\* Whenever u -> v and v -> w are edges, u -> w is an edge.
ClosedEdges(edges) ==
    \A u \in DOMAIN edges : \A v \in edges[u] : \A w \in edges[v] : w \in edges[u]

\* The reduced map has the reachability of the input map.
SameReachability(edges, reduced) ==
    TransitiveClosure(EdgePairs(reduced)) = TransitiveClosure(EdgePairs(edges))

\* Some edge of the reduced map can be removed without changing what is
\* reachable in it.
HasRemovableEdge(reduced) ==
    \E e \in EdgePairs(reduced) : e \in TransitiveClosure(EdgePairs(reduced) \ {e})

\* C13 as stated: there is an acyclic edge map that is not transitively
\* closed (every target also a key) for which reduce_transitive_edges
\* returns an edge set that does not have the reachability of its input or
\* still has an edge whose removal leaves reachability unchanged.  The map
\* is looked for among all the edge maps the reducer may be given here.
C13_WrongOnSomeOpenDag ==
    pc = "full" =>
        \E edges \in EdgeMaps :
            /\ AcyclicEdges(edges)
            /\ ~ClosedEdges(edges)
            /\ \/ ~SameReachability(edges, reduce_transitive_edges(edges))
               \/ HasRemovableEdge(reduce_transitive_edges(edges))

\* C13, amended: for every acyclic edge map (every target also a key),
\* transitively closed or not, reduce_transitive_edges returns an edge set
\* that has the reachability of its input and in which no edge can be
\* removed without changing reachability.
C13_CorrectOnEveryDag ==
    (pc = "reduced" /\ AcyclicEdges(full_edges)) =>
        /\ SameReachability(full_edges, reduced_edges)
        /\ ~HasRemovableEdge(reduced_edges)

\* An acyclic edge map that is not transitively closed was reduced: an edge
\* was removed, and an edge that a closed map would have is absent.
C13_Witness ==
    /\ pc = "reduced"
    /\ AcyclicEdges(full_edges)
    /\ ~ClosedEdges(full_edges)
    /\ \E u \in DOMAIN full_edges : reduced_edges[u] # full_edges[u]

====
